---- MODULE Spec2Model ----
(***************************************************************************)
(* dailymonthly.py: merge Obsidian daily notes (YYYY-MM-DD.md) into        *)
(* monthly summaries (YYYY-MM.md).                                         *)
(*                                                                         *)
(* Text is a sequence of tokens.  "sp" is a space and "nl" a line feed     *)
(* (the two whitespace characters of the model), "#" the hash sign, "M"    *)
(* the five characters `- [ ]`, "a" and "b" letters, and a stem such as    *)
(* "2024-01-02" the ten characters of a daily note's date.                 *)
(***************************************************************************)
EXTENDS Integers, Sequences, FiniteSets, TLC

\* daily:   the daily notes of the directory, stem -> [exists, text]
\* monthly: the monthly notes of the directory, month -> [exists, text]
\* phase:   how many calls of merge_month_notes were made (MergeSpec)
\* last:    the last call of merge_month_notes: its flags, the output file
\*          before it, what it raised, the notes it read and wrote (MergeSpec)
\* pc:      where main stands (MainSpec)
\* run:     the options and locals of main, and what it echoed (MainSpec)
VARIABLES daily, monthly, phase, last, pc, run

vars == <<daily, monthly, phase, last, pc, run>>

\* Total number of lines the daily notes of one merged month hold.
MaxLines == 2

----------------------------------------------------------------------------
(* str and re primitives, as dailymonthly.py uses them *)

Spaces == {"sp", "nl"}

RECURSIVE LStrip(_)
LStrip(s) ==
    IF s # <<>> /\ Head(s) \in Spaces THEN LStrip(Tail(s)) ELSE s

RECURSIVE RStrip(_)
RStrip(s) ==
    IF s # <<>> /\ s[Len(s)] \in Spaces
    THEN RStrip(SubSeq(s, 1, Len(s) - 1))
    ELSE s

\* str.strip()
Strip(s) == RStrip(LStrip(s))

\* str.startswith('- [ ]')
StartsWithTodo(line) == line # <<>> /\ Head(line) = "M"

\* index of the first token of s at or after i that is not whitespace
\* (Len(s) + 1 when there is none)
RECURSIVE SkipSpaces(_, _)
SkipSpaces(s, i) ==
    IF i <= Len(s) /\ s[i] \in Spaces THEN SkipSpaces(s, i + 1) ELSE i

\* index of the last "nl" of s in lo..hi, 0 when there is none
RECURSIVE LastNewline(_, _, _)
LastNewline(s, lo, hi) ==
    IF hi < lo THEN 0
    ELSE IF s[hi] = "nl" THEN hi
    ELSE LastNewline(s, lo, hi - 1)

\* Length of the match of  #\s*<date_str>\s*\n  at index i of s, 0 for no
\* match.  Both \s* are greedy; the second gives back down to the last line
\* feed of the whitespace run.
HeaderMatchLen(s, i, date_str) ==
    IF i > Len(s) \/ s[i] # "#" THEN 0
    ELSE LET j == SkipSpaces(s, i + 1)
         IN  IF j > Len(s) \/ s[j] # date_str THEN 0
             ELSE LET e == SkipSpaces(s, j + 1) - 1
                      n == LastNewline(s, j + 1, e)
                  IN  IF n = 0 THEN 0 ELSE n - i + 1

\* re.sub(r'^#\s*' + date_str + r'\s*\n', '', s, flags=re.MULTILINE), from
\* index i on: ^ matches at the start and after every line feed.
RECURSIVE SubHeaderFrom(_, _, _)
SubHeaderFrom(s, i, date_str) ==
    IF i > Len(s) THEN <<>>
    ELSE LET atLineStart == i = 1 \/ s[i - 1] = "nl"
             k == IF atLineStart THEN HeaderMatchLen(s, i, date_str) ELSE 0
         IN  IF k > 0
             THEN SubHeaderFrom(s, i + k, date_str)
             ELSE <<s[i]>> \o SubHeaderFrom(s, i + 1, date_str)

RemoveSelfHeader(content, date_str) == SubHeaderFrom(content, 1, date_str)

\* index of the first "nl" of s, 0 when there is none
RECURSIVE FirstNewline(_, _)
FirstNewline(s, i) ==
    IF i > Len(s) THEN 0
    ELSE IF s[i] = "nl" THEN i
    ELSE FirstNewline(s, i + 1)

\* str.splitlines(): no line endings kept, no empty last line
RECURSIVE SplitLines(_)
SplitLines(s) ==
    IF s = <<>> THEN <<>>
    ELSE LET n == FirstNewline(s, 1)
         IN  IF n = 0 THEN <<s>>
             ELSE <<SubSeq(s, 1, n - 1)>> \o SplitLines(SubSeq(s, n + 1, Len(s)))

\* iterating a text file: the lines with their line endings
RECURSIVE FileLines(_)
FileLines(s) ==
    IF s = <<>> THEN <<>>
    ELSE LET n == FirstNewline(s, 1)
         IN  IF n = 0 THEN <<s>>
             ELSE <<SubSeq(s, 1, n)>> \o FileLines(SubSeq(s, n + 1, Len(s)))

\* "\n".join(lines)
RECURSIVE JoinLines(_)
JoinLines(lines) ==
    IF lines = <<>> THEN <<>>
    ELSE IF Len(lines) = 1 THEN lines[1]
    ELSE lines[1] \o <<"nl">> \o JoinLines(Tail(lines))

----------------------------------------------------------------------------
(* merge_month_notes *)

\* variant: the guard left out
OutputNeverBlocked(exists, append) == FALSE

\* the guard of the first statement: output_file.exists() and not append
OutputBlocked(exists, append) == exists /\ ~append

\* the Seen set loaded from the output file: the stripped lines that start
\* with `- [ ]`
ExistingTodos(text) ==
    LET lines == FileLines(text)
    IN  {Strip(lines[i]) : i \in {j \in DOMAIN lines : StartsWithTodo(lines[j])}}

\* existing_todos before the loop
PreloadTodos(file, skip_duplicate_todos) ==
    IF skip_duplicate_todos /\ file.exists THEN ExistingTodos(file.text) ELSE {}

\* variant: open('w'), which truncates
OpenForWrite(file) == <<>>

\* open('a'): writes go after what the file holds, an absent file is created
OpenForAppend(file) == IF file.exists THEN file.text ELSE <<>>

\* the test of the inner loop's first branch
IsTodoLine(line, skip_duplicate_todos) ==
    skip_duplicate_todos /\ StartsWithTodo(line)

\* the inner loop over the lines of one note
RECURSIVE FilterLines(_, _, _, _, _)
FilterLines(lines, skip_duplicate_todos, existing_todos, filtered_content, only_duplicate_todos) ==
    IF lines = <<>>
    THEN [filtered_content |-> filtered_content,
          existing_todos |-> existing_todos,
          only_duplicate_todos |-> only_duplicate_todos]
    ELSE LET line == Head(lines)
         IN  IF IsTodoLine(line, skip_duplicate_todos)
             THEN IF Strip(line) \in existing_todos
                  THEN FilterLines(Tail(lines), skip_duplicate_todos,
                                   existing_todos, filtered_content,
                                   only_duplicate_todos)
                  ELSE FilterLines(Tail(lines), skip_duplicate_todos,
                                   existing_todos \cup {Strip(line)},
                                   Append(filtered_content, line), FALSE)
             ELSE FilterLines(Tail(lines), skip_duplicate_todos,
                              existing_todos, Append(filtered_content, line),
                              only_duplicate_todos /\ Strip(line) = <<>>)

\* while filtered_content and not filtered_content[0].strip(): pop(0)
RECURSIVE DropLeadingBlank(_)
DropLeadingBlank(lines) ==
    IF lines # <<>> /\ Strip(Head(lines)) = <<>>
    THEN DropLeadingBlank(Tail(lines))
    ELSE lines

\* the two writes of one note
NoteBlock(date_str, filtered_content) ==
    <<"#", "sp", date_str, "nl", "nl">>
        \o JoinLines(DropLeadingBlank(filtered_content)) \o <<"nl", "nl">>

\* variant: the test after the inner loop left out
SkipOnlyEmptyNote(keep_empty, only_duplicate_todos) == FALSE

\* the test after the inner loop: not keep_empty and only_duplicate_todos
SkipFilteredNote(keep_empty, only_duplicate_todos) ==
    ~keep_empty /\ only_duplicate_todos

\* One pass of the outer loop, for the note of stem date_str holding raw:
\* whether a header was written, the text written, and existing_todos after.
MergeOneNote(raw, date_str, keep_empty, skip_duplicate_todos, existing_todos) ==
    LET content == Strip(raw)
    IN  IF ~keep_empty /\ content = <<>>
        THEN [wrote |-> FALSE, text |-> <<>>, existing_todos |-> existing_todos]
        ELSE LET f == FilterLines(SplitLines(RemoveSelfHeader(content, date_str)),
                                  skip_duplicate_todos, existing_todos, <<>>, TRUE)
             IN  IF SkipFilteredNote(keep_empty, f.only_duplicate_todos)
                 THEN [wrote |-> FALSE, text |-> <<>>,
                       existing_todos |-> f.existing_todos]
                 ELSE [wrote |-> TRUE,
                       text |-> NoteBlock(date_str, f.filtered_content),
                       existing_todos |-> f.existing_todos]

\* The outer loop from note i on; acc holds the file's text, existing_todos
\* and, per note passed, whether its header was written.
RECURSIVE MergeLoop(_, _, _, _, _)
MergeLoop(daily_notes, i, keep_empty, skip_duplicate_todos, acc) ==
    IF i > Len(daily_notes) THEN acc
    ELSE LET r == MergeOneNote(daily[daily_notes[i]].text, daily_notes[i],
                               keep_empty, skip_duplicate_todos,
                               acc.existing_todos)
         IN  MergeLoop(daily_notes, i + 1, keep_empty, skip_duplicate_todos,
                       [text |-> acc.text \o r.text,
                        existing_todos |-> r.existing_todos,
                        wrote |-> Append(acc.wrote, r.wrote)])

\* merge_month_notes on output file `file`: the exception raised ("none"
\* when it returns), the file after, and the notes read and written.
MergeMonthNotes(daily_notes, file, keep_empty, append, skip_duplicate_todos) ==
    IF OutputBlocked(file.exists, append)
    THEN [raised |-> "FileExistsError", file |-> file, read |-> <<>>,
          wrote |-> <<>>]
    ELSE LET r == MergeLoop(daily_notes, 1, keep_empty, skip_duplicate_todos,
                            [text |-> OpenForAppend(file),
                             existing_todos |->
                                 PreloadTodos(file, skip_duplicate_todos),
                             wrote |-> <<>>])
         IN  [raised |-> "none", file |-> [exists |-> TRUE, text |-> r.text],
              read |-> daily_notes, wrote |-> r.wrote]

----------------------------------------------------------------------------
(* Calls of merge_month_notes on one month: a merge, then a merge again *)

MergeMonth == "2024-01"
MergeStems == <<"2024-01-01", "2024-01-02">>

NoFile == [exists |-> FALSE, text |-> <<>>]
File(text) == [exists |-> TRUE, text |-> text]

\* the lines a daily note of the given stem is made of
NoteLines(stem) ==
    {<<>>, <<"a">>, <<"M", "sp", "a">>, <<"sp", "M", "sp", "a">>,
     <<"M", "sp", "b">>, <<"#", "sp", stem>>}

NoteTexts(stem, k) == {JoinLines(ls) : ls \in [1..k -> NoteLines(stem)]}

\* a monthly note written by hand before the first merge
HandWritten == <<"M", "sp", "a", "nl", "sp", "M", "sp", "b", "nl">>

NoCall ==
    [called |-> FALSE, keep_empty |-> FALSE, append |-> FALSE,
     skip_duplicate_todos |-> FALSE, before |-> NoFile, raised |-> "none",
     read |-> <<>>, wrote |-> <<>>, returned |-> 0]

NoRun == [used |-> FALSE]

MergeInit ==
    /\ \E k1 \in 0..MaxLines : \E k2 \in 0..(MaxLines - k1) :
         \E t1 \in NoteTexts(MergeStems[1], k1) :
           \E t2 \in NoteTexts(MergeStems[2], k2) :
             daily = [s \in {MergeStems[1], MergeStems[2]} |->
                        IF s = MergeStems[1] THEN File(t1) ELSE File(t2)]
    /\ monthly \in [{MergeMonth} -> {NoFile, File(HandWritten)}]
    /\ phase = "fresh"
    /\ last = NoCall
    /\ pc = "merge"
    /\ run = NoRun

MergeCall ==
    /\ phase \in {"fresh", "once"}
    /\ \E keep_empty \in BOOLEAN, append \in BOOLEAN,
          skip_duplicate_todos \in BOOLEAN :
         LET r == MergeMonthNotes(MergeStems, monthly[MergeMonth], keep_empty,
                                  append, skip_duplicate_todos)
         IN  /\ monthly' = [monthly EXCEPT ![MergeMonth] = r.file]
             /\ last' = [called |-> TRUE, keep_empty |-> keep_empty,
                         append |-> append,
                         skip_duplicate_todos |-> skip_duplicate_todos,
                         before |-> monthly[MergeMonth], raised |-> r.raised,
                         read |-> r.read, wrote |-> r.wrote,
                         returned |-> last.returned
                                        + (IF r.raised = "none" THEN 1 ELSE 0)]
    /\ phase' = IF phase = "fresh" THEN "once" ELSE "twice"
    /\ UNCHANGED <<daily, pc, run>>

MergeNext == MergeCall

MergeSpec == MergeInit /\ [][MergeNext]_vars

----------------------------------------------------------------------------
(* main: one run of the command over a directory of daily notes *)

MainStems == {"2024-01-01", "2024-01-02", "2024-02-01"}
MainMonths == {"2024-01", "2024-02"}

Date(y, m, d) == [year |-> y, month |-> m, day |-> d]

\* datetime.strptime(stem, '%Y-%m-%d').date()
ParseDate(stem) ==
    CASE stem = "2024-01-01" -> Date(2024, 1, 1)
      [] stem = "2024-01-02" -> Date(2024, 1, 2)
      [] stem = "2024-02-01" -> Date(2024, 2, 1)

\* file.stem[:7]
MonthOf(stem) ==
    CASE stem = "2024-01-01" -> "2024-01"
      [] stem = "2024-01-02" -> "2024-01"
      [] stem = "2024-02-01" -> "2024-02"

\* the year and month a key YYYY-MM spells
KeyPair(key) ==
    CASE key = "2023-12" -> <<2023, 12>>
      [] key = "2024-01" -> <<2024, 1>>
      [] key = "2024-02" -> <<2024, 2>>

\* k1 <= k2 on the strings YYYY-MM: fixed width and zero padded, they
\* compare as their years and months do
KeyLE(k1, k2) ==
    LET a == KeyPair(k1)
        b == KeyPair(k2)
    IN  a[1] < b[1] \/ (a[1] = b[1] /\ a[2] <= b[2])

\* f"{last_month.year}-{last_month.month:02d}"
FormatMonth(d) ==
    CASE d.year = 2023 /\ d.month = 12 -> "2023-12"
      [] d.year = 2024 /\ d.month = 1 -> "2024-01"
      [] d.year = 2024 /\ d.month = 2 -> "2024-02"

IsLeap(y) == y % 4 = 0 /\ (y % 100 # 0 \/ y % 400 = 0)

DaysInMonth(y, m) ==
    IF m = 2 THEN (IF IsLeap(y) THEN 29 ELSE 28)
    ELSE IF m \in {4, 6, 9, 11} THEN 30
    ELSE 31

\* d - timedelta(days=1)
DayBefore(d) ==
    IF d.day > 1 THEN Date(d.year, d.month, d.day - 1)
    ELSE IF d.month > 1
    THEN Date(d.year, d.month - 1, DaysInMonth(d.year, d.month - 1))
    ELSE Date(d.year - 1, 12, 31)

\* d - timedelta(days=n)
RECURSIVE DateMinusDays(_, _)
DateMinusDays(d, n) == IF n = 0 THEN d ELSE DateMinusDays(DayBefore(d), n - 1)

DateBefore(d, e) ==
    \/ d.year < e.year
    \/ d.year = e.year /\ d.month < e.month
    \/ d.year = e.year /\ d.month = e.month /\ d.day < e.day

\* variant: d < cutoff_date
StrictlyBefore(d, cutoff_date) == DateBefore(d, cutoff_date)

\* d <= cutoff_date on dates
OnOrBefore(d, cutoff_date) == d = cutoff_date \/ DateBefore(d, cutoff_date)

\* sorted(v) of a set of paths with stems of one width
RECURSIVE SortedStems(_)
SortedStems(S) ==
    IF S = {} THEN <<>>
    ELSE LET least == CHOOSE s \in S :
                        \A t \in S \ {s} : DateBefore(ParseDate(s), ParseDate(t))
         IN  <<least>> \o SortedStems(S \ {least})

\* get_daily_notes: the daily notes of the directory by month, each list
\* sorted; target_month "" stands for None
GetDailyNotes(target_month) ==
    LET listing == {s \in MainStems : daily[s].exists}
        kept == {s \in listing : target_month = "" \/ MonthOf(s) = target_month}
    IN  [m \in {MonthOf(s) : s \in kept} |->
           SortedStems({s \in kept : MonthOf(s) = m})]

\* the list comprehension of the days-to-keep branch
RECURSIVE KeepOnOrBefore(_, _)
KeepOnOrBefore(daily_notes, cutoff_date) ==
    IF daily_notes = <<>> THEN <<>>
    ELSE (IF OnOrBefore(ParseDate(Head(daily_notes)), cutoff_date)
          THEN <<Head(daily_notes)>> ELSE <<>>)
             \o KeepOnOrBefore(Tail(daily_notes), cutoff_date)

\* notes_by_month as the three branches of main leave it; days_to_keep -1
\* stands for None
SelectNotes(today, days_to_keep, month) ==
    IF days_to_keep >= 0
    THEN LET cutoff_date == DateMinusDays(today, days_to_keep)
             all == GetDailyNotes("")
         IN  [m \in DOMAIN all |-> KeepOnOrBefore(all[m], cutoff_date)]
    ELSE IF month # ""
    THEN GetDailyNotes(month)
    ELSE LET last_month == DayBefore(Date(today.year, today.month, 1))
             cutoff_month == FormatMonth(last_month)
             all == GetDailyNotes("")
         IN  [m \in {k \in DOMAIN all : KeyLE(k, cutoff_month)} |-> all[m]]

\* the orders a dict built from a directory listing may iterate in
Orders(keys) ==
    {q \in [1..Cardinality(keys) -> keys] :
        \A a, b \in DOMAIN q : a # b => q[a] # q[b]}

CountTrue(flags) == Cardinality({i \in DOMAIN flags : flags[i]})

\* variant: the number of headers written is echoed
MergedCountWritten(daily_notes, wrote) == CountTrue(wrote)

\* the number echoed after a merge that returned: len(daily_notes)
MergedCount(daily_notes, wrote) == Len(daily_notes)

\* variant: the notes are deleted in the handler too
DeleteAfterFileExistsError(delete) == IF delete THEN "deleting" ELSE "month"

\* variant: no handler, FileExistsError leaves main
AbortAfterFileExistsError(delete) == "crashed"

\* except FileExistsError: the error is echoed and the loop goes on
AfterFileExistsError(delete) == "month"

Today == {Date(2024, 1, 8), Date(2024, 2, 2), Date(2024, 3, 1)}
DaysToKeep == {-1, 0, 1, 7}
MonthOption == {"", "2024-01"}
DailyTexts == {<<>>, <<"M", "sp", "a">>}
MonthlyFiles == {NoFile, File(<<"a", "nl">>)}

MainInit ==
    /\ daily \in [MainStems -> {File(t) : t \in DailyTexts}]
    /\ monthly \in [MainMonths -> MonthlyFiles]
    /\ phase = "main"
    /\ last = NoCall
    /\ pc = "start"
    /\ \E today \in Today, days_to_keep \in DaysToKeep, month \in MonthOption,
          delete \in BOOLEAN, keep_empty \in BOOLEAN, append \in BOOLEAN,
          skip_duplicate_todos \in BOOLEAN :
         /\ (days_to_keep >= 0 => month = "")
         /\ run = [today |-> today, days_to_keep |-> days_to_keep,
                   month |-> month, delete |-> delete,
                   keep_empty |-> keep_empty, append |-> append,
                   skip_duplicate_todos |-> skip_duplicate_todos,
                   listed |-> {}, notes_by_month |-> <<>>, order |-> <<>>,
                   idx |-> 0, i |-> 0, existing_todos |-> {}, wrote |-> <<>>,
                   echo |-> <<>>, attempted |-> {}, returned |-> {},
                   raised |-> "none"]

CurMonth == run.order[run.idx]
CurNotes == run.notes_by_month[CurMonth]

\* the selection of the notes, up to the loop over the months
MainStart ==
    /\ pc = "start"
    /\ LET nbm == SelectNotes(run.today, run.days_to_keep, run.month)
       IN  \E order \in Orders(DOMAIN nbm) :
             run' = [run EXCEPT !.notes_by_month = nbm, !.order = order,
                                !.idx = 1,
                                !.listed = {s \in MainStems : daily[s].exists}]
    /\ pc' = "month"
    /\ UNCHANGED <<daily, monthly, phase, last>>

\* the loop over the months is over
MainDone ==
    /\ pc = "month"
    /\ run.idx > Len(run.order)
    /\ pc' = "done"
    /\ UNCHANGED <<daily, monthly, phase, last, run>>

\* a month whose list is empty
MainNoNotes ==
    /\ pc = "month"
    /\ run.idx <= Len(run.order)
    /\ CurNotes = <<>>
    /\ run' = [run EXCEPT !.idx = @ + 1,
                          !.echo = Append(@, [kind |-> "none", month |-> CurMonth,
                                              count |-> 0])]
    /\ UNCHANGED <<daily, monthly, phase, last, pc>>

\* merge_month_notes is called and raises FileExistsError
MainOutputExists ==
    /\ pc = "month"
    /\ run.idx <= Len(run.order)
    /\ CurNotes # <<>>
    /\ OutputBlocked(monthly[CurMonth].exists, run.append)
    /\ pc' = AfterFileExistsError(run.delete)
    /\ run' = [run EXCEPT !.attempted = @ \cup {CurMonth},
                          !.idx = IF pc' = "month" THEN @ + 1 ELSE @,
                          !.i = 1,
                          !.echo = Append(@, [kind |-> "error", month |-> CurMonth,
                                              count |-> 0])]
    /\ UNCHANGED <<daily, monthly, phase, last>>

\* merge_month_notes is called, loads existing_todos and opens the output
MainOpenOutput ==
    /\ pc = "month"
    /\ run.idx <= Len(run.order)
    /\ CurNotes # <<>>
    /\ ~OutputBlocked(monthly[CurMonth].exists, run.append)
    /\ monthly' = [monthly EXCEPT
                     ![CurMonth] = File(OpenForAppend(monthly[CurMonth]))]
    /\ run' = [run EXCEPT !.attempted = @ \cup {CurMonth},
                          !.existing_todos =
                              PreloadTodos(monthly[CurMonth],
                                           run.skip_duplicate_todos),
                          !.i = 1, !.wrote = <<>>]
    /\ pc' = "merging"
    /\ UNCHANGED <<daily, phase, last>>

\* one pass of the loop of merge_month_notes
MainMergeNote ==
    /\ pc = "merging"
    /\ run.i <= Len(CurNotes)
    /\ LET r == MergeOneNote(daily[CurNotes[run.i]].text, CurNotes[run.i],
                             run.keep_empty, run.skip_duplicate_todos,
                             run.existing_todos)
       IN  /\ monthly' = [monthly EXCEPT
                            ![CurMonth] = File(monthly[CurMonth].text \o r.text)]
           /\ run' = [run EXCEPT !.existing_todos = r.existing_todos,
                                 !.i = @ + 1,
                                 !.wrote = Append(@, r.wrote)]
    /\ UNCHANGED <<daily, phase, last, pc>>

\* note.read_text raises an OSError other than FileExistsError: it leaves
\* merge_month_notes and main, which catches FileExistsError only
MainReadFails ==
    /\ pc = "merging"
    /\ run.i <= Len(CurNotes)
    /\ run' = [run EXCEPT !.raised = "OSError"]
    /\ pc' = "crashed"
    /\ UNCHANGED <<daily, monthly, phase, last>>

\* merge_month_notes returns
MainMergeReturns ==
    /\ pc = "merging"
    /\ run.i > Len(CurNotes)
    /\ run' = [run EXCEPT !.returned = @ \cup {CurMonth},
                          !.idx = IF run.delete THEN @ ELSE @ + 1,
                          !.i = 1,
                          !.echo = Append(@, [kind |-> "merged", month |-> CurMonth,
                                              count |-> MergedCount(CurNotes,
                                                                    run.wrote)])]
    /\ pc' = IF run.delete THEN "deleting" ELSE "month"
    /\ UNCHANGED <<daily, monthly, phase, last>>

\* note.unlink() of one note of the month
MainDeleteNote ==
    /\ pc = "deleting"
    /\ run.i <= Len(CurNotes)
    /\ daily' = [daily EXCEPT ![CurNotes[run.i]] = NoFile]
    /\ run' = [run EXCEPT !.i = @ + 1]
    /\ UNCHANGED <<monthly, phase, last, pc>>

\* the notes of the month are deleted
MainDeleted ==
    /\ pc = "deleting"
    /\ run.i > Len(CurNotes)
    /\ run' = [run EXCEPT !.idx = @ + 1,
                          !.echo = Append(@, [kind |-> "deleted", month |-> CurMonth,
                                              count |-> Len(CurNotes)])]
    /\ pc' = "month"
    /\ UNCHANGED <<daily, monthly, phase, last>>

MainNext ==
    \/ MainStart
    \/ MainDone
    \/ MainNoNotes
    \/ MainOutputExists
    \/ MainOpenOutput
    \/ MainMergeNote
    \/ MainReadFails
    \/ MainMergeReturns
    \/ MainDeleteNote
    \/ MainDeleted

MainSpec == MainInit /\ [][MainNext]_vars

----------------------------------------------------------------------------
(* Properties of merge_month_notes *)

IsPrefix(p, s) == Len(p) <= Len(s) /\ SubSeq(s, 1, Len(p)) = p

\* the text the last call added to the output file
Appended ==
    SubSeq(monthly[MergeMonth].text, Len(last.before.text) + 1,
           Len(monthly[MergeMonth].text))

Returned == last.called /\ last.raised = "none"

\* C1: a call with append = FALSE on an output file that exists raises
\* FileExistsError, leaves the file as it was and reads and writes no note,
\* whatever the notes, keep_empty and skip_duplicate_todos.
C1_ExistingOutputBlocks ==
    (last.called /\ last.before.exists /\ ~last.append)
        => /\ last.raised = "FileExistsError"
           /\ monthly[MergeMonth] = last.before
           /\ last.read = <<>>
           /\ last.wrote = <<>>

C1_Witness ==
    /\ last.called /\ last.before.exists /\ ~last.append
    /\ last.before.text # <<>>
    /\ last.raised = "FileExistsError"
    /\ \E s \in DOMAIN daily : Strip(daily[s].text) # <<>>

\* C2: a call that proceeds only adds to the output file: what the file held
\* before any step is a prefix of what it holds after it.
C2_AppendOnly ==
    [][IsPrefix(monthly[MergeMonth].text, monthly'[MergeMonth].text)
       /\ (monthly[MergeMonth].exists => monthly'[MergeMonth].exists)]_vars

C2_Witness ==
    /\ Returned /\ last.append /\ last.before.exists
    /\ last.before.text # <<>>
    /\ Len(monthly[MergeMonth].text) > Len(last.before.text)
    /\ last.returned = 2

\* a checklist line, as the specification words it: the trimmed text begins
\* with `- [ ] `
IsChecklist(t) == Len(t) >= 2 /\ t[1] = "M" /\ t[2] = "sp"

\* how many lines of text have the trimmed text t
Occurrences(text, t) ==
    LET lines == SplitLines(text)
    IN  Cardinality({i \in DOMAIN lines : Strip(lines[i]) = t})

ChecklistTexts(text) ==
    LET lines == SplitLines(text)
    IN  {Strip(lines[i]) : i \in {j \in DOMAIN lines : IsChecklist(Strip(lines[j]))}}

NoteChecklistTexts ==
    UNION {ChecklistTexts(daily[s].text) : s \in DOMAIN daily}

\* C3: with skip_duplicate_todos, a checklist line already in the file before
\* the call is not written again, and one that was not is written at most
\* once by the call.
C3_NoDuplicateChecklistLine ==
    (Returned /\ last.skip_duplicate_todos)
        => \A t \in NoteChecklistTexts :
             LET nb == Occurrences(last.before.text, t)
                 na == Occurrences(monthly[MergeMonth].text, t)
             IN  IF nb > 0 THEN na = nb ELSE na <= 1

\* the lines of note i the loop filters: stripped, self-header removed
ProcessedLines(i) ==
    SplitLines(RemoveSelfHeader(Strip(daily[MergeStems[i]].text), MergeStems[i]))

TodoTexts(lines, upto) ==
    {Strip(lines[j]) : j \in {k \in 1..upto : StartsWithTodo(lines[k])}}

\* the checklist lines that precede line j of note i: those of the file
\* before the call, of the earlier notes and of the earlier lines of note i
SeenBefore(i, j) ==
    PreloadTodos(last.before, TRUE)
        \cup UNION {TodoTexts(ProcessedLines(k), Len(ProcessedLines(k))) :
                      k \in 1..(i - 1)}
        \cup TodoTexts(ProcessedLines(i), j - 1)

\* note i has a meaningful line: not blank, and not a suppressed duplicate
HasMeaningfulLine(i) ==
    \E j \in DOMAIN ProcessedLines(i) :
        LET line == ProcessedLines(i)[j]
        IN  /\ Strip(line) # <<>>
            /\ ~(/\ last.skip_duplicate_todos
                 /\ StartsWithTodo(line)
                 /\ Strip(line) \in SeenBefore(i, j))

NoteProseTexts ==
    UNION {LET lines == SplitLines(daily[s].text)
           IN  {Strip(lines[i]) :
                  i \in {j \in DOMAIN lines :
                           /\ Strip(lines[j]) # <<>>
                           /\ ~IsChecklist(Strip(lines[j]))}} :
           s \in DOMAIN daily}

NoteOccurrences(t) ==
    LET a == Occurrences(daily[MergeStems[1]].text, t)
        b == Occurrences(daily[MergeStems[2]].text, t)
    IN  a + b

\* C6: merging the notes of a merged month again with append and
\* skip_duplicate_todos changes the number of occurrences of no checklist
\* line, and writes every other non-blank line of the notes again.
C6_RemergeAddsNoChecklistLine ==
    (Returned /\ last.returned = 2 /\ last.append /\ last.skip_duplicate_todos)
        => /\ \A t \in NoteChecklistTexts :
                Occurrences(monthly[MergeMonth].text, t)
                    = Occurrences(last.before.text, t)
           /\ \A t \in NoteProseTexts :
                Occurrences(Appended, t) >= NoteOccurrences(t)

\* the text is the note's own header line and then blank lines only
SelfHeaderOnly(text, stem) ==
    /\ IsPrefix(<<"#", "sp", stem>>, text)
    /\ \A i \in 4..Len(text) : text[i] = "nl"

\* C7: without keep_empty a note that holds only its own header line and
\* blank lines gets no header and no body.
C7_SelfHeaderOnlySkipped ==
    (Returned /\ ~last.keep_empty)
        => \A i \in DOMAIN MergeStems :
             SelfHeaderOnly(daily[MergeStems[i]].text, MergeStems[i])
                 => ~last.wrote[i]

----------------------------------------------------------------------------
(* Properties of main *)

Selected(s) ==
    \E m \in DOMAIN run.notes_by_month :
        \E k \in DOMAIN run.notes_by_month[m] : run.notes_by_month[m][k] = s

\* the header of the note of stem s is in its month's file
HeaderWritten(s) ==
    \E i \in DOMAIN monthly[MonthOf(s)].text : monthly[MonthOf(s)].text[i] = s

\* the headers in the file of month m
HeadersIn(m) ==
    Cardinality({i \in DOMAIN monthly[m].text : monthly[m].text[i] \in MainStems})

\* the day of the year 2024 a date of January to March 2024 is
DayOfYear(d) ==
    CASE d.month = 1 -> d.day
      [] d.month = 2 -> 31 + d.day
      [] d.month = 3 -> 60 + d.day

\* C4: a daily note is deleted only when deletion is asked for and
\* merge_month_notes has returned for its month; while a month is merged, and
\* after its merge has failed, all its notes are there.
C4_DeleteOnlyAfterMerge ==
    /\ \A s \in MainStems :
         ~daily[s].exists => (run.delete /\ MonthOf(s) \in run.returned)
    /\ pc \in {"merging", "crashed"}
         => \A k \in DOMAIN CurNotes : daily[CurNotes[k]].exists
    /\ pc = "deleting" => (CurMonth \in run.returned /\ Len(run.wrote) = Len(CurNotes))

C4_Witness ==
    /\ pc = "done"
    /\ \E s \in MainStems : ~daily[s].exists
    /\ \E m \in run.attempted \ run.returned :
         \A s \in MainStems : MonthOf(s) = m => daily[s].exists

AllAttempted ==
    \A m \in DOMAIN run.notes_by_month :
        run.notes_by_month[m] # <<>> => m \in run.attempted

\* C8 as stated: whatever fails for a month, an existing output file or an
\* I/O failure, every selected month with notes has been attempted when the
\* run has ended.
C8_FailureAbortsOnlyMonth ==
    pc \in {"done", "crashed"} => AllAttempted

\* C8 as amended: an existing output file aborts its month only and a run
\* without I/O failure attempts every selected month with notes; the run is
\* aborted by an I/O failure only, and then attempts none of the later months.
C8_OnlyIOFailureAbortsRun ==
    /\ pc = "done" => (AllAttempted /\ run.raised = "none")
    /\ pc = "crashed"
         => /\ run.raised = "OSError"
            /\ \A k \in (run.idx + 1)..Len(run.order) :
                 run.order[k] \notin run.attempted

C8_Witness ==
    /\ pc = "done"
    /\ \E p, q \in DOMAIN run.echo :
         /\ p < q
         /\ run.echo[p].kind = "error"
         /\ run.echo[q].kind = "merged"

\* C9: with a day count N the notes selected are those dated on or before
\* today minus N days; with today 2024-01-08 and N = 7 that is 2024-01-01
\* alone; and a run that keeps empty notes and fails for no month writes the
\* headers of exactly the selected notes.
C9_CutoffOnOrBefore ==
    (pc # "start" /\ run.days_to_keep >= 0)
        => /\ \A s \in run.listed :
                Selected(s) <=> (DayOfYear(ParseDate(s)) + run.days_to_keep
                                    <= DayOfYear(run.today))
           /\ (run.today = Date(2024, 1, 8) /\ run.days_to_keep = 7)
                => {s \in MainStems : Selected(s)} = {"2024-01-01"}
           /\ (pc = "done" /\ run.keep_empty /\ run.attempted = run.returned
                 /\ AllAttempted)
                => \A s \in run.listed : HeaderWritten(s) <=> Selected(s)

C9_Witness ==
    /\ pc = "done"
    /\ run.today = Date(2024, 1, 8) /\ run.days_to_keep = 7
    /\ HeaderWritten("2024-01-01")
    /\ ~HeaderWritten("2024-01-02")
    /\ ~run.delete

\* C10 as stated: the count reported for a merged month is the number of
\* headers written to its file.
C10_ReportsNotesWritten ==
    \A i \in DOMAIN run.echo :
        run.echo[i].kind = "merged"
            => run.echo[i].count
                 = HeadersIn(run.echo[i].month)

\* C10 as amended: the count reported for a merged month is the number of
\* notes in the month's list, also when some of them were skipped.
C10_ReportsNotesConsidered ==
    \A i \in DOMAIN run.echo :
        run.echo[i].kind = "merged"
            => run.echo[i].count = Len(run.notes_by_month[run.echo[i].month])

C10_Witness ==
    /\ pc = "done"
    /\ \E i \in DOMAIN run.echo :
         /\ run.echo[i].kind = "merged"
         /\ run.echo[i].count = 2
         /\ HeadersIn(run.echo[i].month) = 1

====
